---- MODULE Spec2Model ----
(***************************************************************************)
(* Model of src/main.py: a batch pipeline over a table of movie records.   *)
(*   load_data -> basic_clean -> prepare_types -> q1..q7 -> save_q         *)
(*                                                                         *)
(* A DataFrame is a sequence of rows; a row is a record whose field idx is *)
(* the pandas index label and whose other fields are the columns.          *)
(* A text cell is a sequence of one-character strings, so that strip and   *)
(* split are computed character by character.  A numeric cell is a set:    *)
(* {} is NaN and {n} is the number n, so arithmetic and comparisons        *)
(* propagate NaN as pandas does.                                           *)
(***************************************************************************)
EXTENDS Integers, Sequences, FiniteSets, TLC

VARIABLES pc, df, out, columns, current_year, env, outs, written

vars == <<pc, df, out, columns, current_year, env, outs, written>>

(***************************************************************************)
(* Cells                                                                   *)
(***************************************************************************)
\* the missing text value (pd.NA / NaN in an object column)
NA == <<"<NA>">>

\* the missing numeric value (NaN)
NaN == {}

Num(n) == {n}

\* the columns holding text; every other column is numeric (or a date)
TextCols == {"original_title", "genres", "genre"}

\* isna of the cell x of column c
IsNull(c, x) == IF c \in TextCols THEN x = NA ELSE x = NaN

\* elementwise a - b of two numeric cells: NaN when either operand is NaN
Minus(a, b) == {x - y : x \in a, y \in b}

\* elementwise a > n: False for NaN
Gt(a, n) == \E x \in a : x > n

\* the number held by a non-NaN numeric cell
Val(a) == CHOOSE x \in a : TRUE

\* all sequences over S of length at most n
SeqsUpTo(S, n) == UNION {[1..k -> S] : k \in 0..n}

\* RangeIndex: rows get the labels 0, 1, 2, ... in order
WithIndex(t) == [i \in 1..Len(t) |-> [c \in DOMAIN t[i] \cup {"idx"} |->
                                        IF c = "idx" THEN i - 1 ELSE t[i][c]]]

\* the columns of a row, without the index label
Data(r) == [c \in DOMAIN r \ {"idx"} |-> r[c]]

(***************************************************************************)
(* Splitting a text on a literal one-character separator                   *)
(***************************************************************************)
RECURSIVE SplitOn(_, _)
SplitOn(s, sep) ==
    IF \A i \in 1..Len(s) : s[i] # sep THEN <<s>>
    ELSE LET k == CHOOSE i \in 1..Len(s) :
                      s[i] = sep /\ \A j \in 1..(i - 1) : s[j] # sep
         IN  <<SubSeq(s, 1, k - 1)>> \o SplitOn(SubSeq(s, k + 1, Len(s)), sep)

(***************************************************************************)
(* str.strip                                                               *)
(***************************************************************************)
Whitespace == {" "}

RECURSIVE LStrip(_)
LStrip(s) == IF s # <<>> /\ Head(s) \in Whitespace THEN LStrip(Tail(s)) ELSE s

RECURSIVE RStrip(_)
RStrip(s) == IF s # <<>> /\ s[Len(s)] \in Whitespace
             THEN RStrip(SubSeq(s, 1, Len(s) - 1)) ELSE s

\* Series.str.strip on one cell: a missing value stays missing
StrStrip(x) == IF x = NA THEN NA ELSE RStrip(LStrip(x))

(***************************************************************************)
(* basic_clean                                                             *)
(***************************************************************************)
\* select_dtypes(include="object"): the columns read as text
ObjCols == TextCols

\* DataFrame.drop_duplicates(): keep the first of the rows equal on all columns
RECURSIVE drop_duplicates(_)
drop_duplicates(t) ==
    IF t = <<>> THEN <<>>
    ELSE LET n == Len(t)
             init == SubSeq(t, 1, n - 1)
         IN  IF \E j \in 1..(n - 1) : Data(t[j]) = Data(t[n])
             THEN drop_duplicates(init)
             ELSE Append(drop_duplicates(init), t[n])

StripRow(r) == [c \in DOMAIN r |-> IF c \in ObjCols THEN StrStrip(r[c]) ELSE r[c]]

basic_clean(t) ==
    LET d == drop_duplicates(t)
    IN  [i \in 1..Len(d) |-> StripRow(d[i])]

(***************************************************************************)
(* Cleaning twice: the inputs and the two applications of basic_clean      *)
(***************************************************************************)
MaxRowsClean == 2
MaxLenClean == 2

\* read_csv reads an empty cell as a missing value, never as the empty text
CleanTexts == (SeqsUpTo({" ", "a"}, MaxLenClean) \ {<<>>}) \cup {NA}

CleanRows == [original_title : CleanTexts, runtime : {Num(90), NaN}]

InitClean ==
    /\ pc = "raw"
    /\ columns = {"original_title", "runtime"}
    /\ df \in {WithIndex(t) : t \in SeqsUpTo(CleanRows, MaxRowsClean)}
    /\ out = <<>>
    /\ current_year = 0
    /\ env = [data |-> TRUE, fallback |-> TRUE, parsable |-> TRUE, disk |-> 7]
    /\ outs = <<>>
    /\ written = <<>>

CleanOnce ==
    /\ pc = "raw"
    /\ df' = basic_clean(df)
    /\ pc' = "cleaned"
    /\ UNCHANGED <<out, columns, current_year, env, outs, written>>

CleanTwice ==
    /\ pc = "cleaned"
    /\ out' = basic_clean(df)
    /\ pc' = "cleaned_twice"
    /\ UNCHANGED <<df, columns, current_year, env, outs, written>>

NextClean == CleanOnce \/ CleanTwice

SpecClean == InitClean /\ [][NextClean]_vars

\* C2: cleaning a cleaned table gives the same table, rows and order
C2_CleanIdempotent == pc = "cleaned_twice" => out = df

(***************************************************************************)
(* explode_pipe                                                            *)
(***************************************************************************)
\* str.split("|") on one text: the substrings between the delimiters, in order
Split(s) == SplitOn(s, "|")

\* DataFrame.dropna(subset=[c])
dropna(t, c) == SelectSeq(t, LAMBDA r : ~IsNull(c, r[c]))

\* one row of DataFrame.explode followed by the strip of the new column:
\* a row per list element, the other columns and the index label replicated
ExplodeRow(r, col, new_col) ==
    LET parts == Split(r[col])
    IN  [k \in 1..Len(parts) |->
            [c \in DOMAIN r \cup {new_col} |->
                IF c = new_col THEN StrStrip(parts[k]) ELSE r[c]]]

RECURSIVE ExplodeAll(_, _, _)
ExplodeAll(t, col, new_col) ==
    IF t = <<>> THEN <<>>
    ELSE ExplodeRow(Head(t), col, new_col) \o ExplodeAll(Tail(t), col, new_col)

\* explode_pipe after its column check
explode_pipe(t, col, new_col) == dropna(ExplodeAll(dropna(t, col), col, new_col), new_col)

(***************************************************************************)
(* Exploding: the inputs and the call of explode_pipe(df, "genres", "genre")*)
(***************************************************************************)
MaxRowsExplode == 2
MaxLenExplode == 3

\* a cleaned cell may be the empty text (a cell of blanks, stripped)
ExplodeTexts == SeqsUpTo({"A", "B", " ", "|"}, MaxLenExplode) \cup {NA}

ExplodeRows == [genres : ExplodeTexts, runtime : {Num(90), NaN}]

NoGenresRows == [runtime : {Num(90), NaN}]

InitExplode ==
    /\ pc = "ready"
    /\ \/ /\ columns = {"genres", "runtime"}
          /\ df \in {WithIndex(t) : t \in SeqsUpTo(ExplodeRows, MaxRowsExplode)}
       \/ /\ columns = {"runtime"}
          /\ df \in {WithIndex(t) : t \in SeqsUpTo(NoGenresRows, MaxRowsExplode)}
    /\ out = <<>>
    /\ current_year = 0
    /\ env = [data |-> TRUE, fallback |-> TRUE, parsable |-> TRUE, disk |-> 7]
    /\ outs = <<>>
    /\ written = <<>>

Explode ==
    /\ pc = "ready"
    /\ "genres" \in columns
    /\ out' = explode_pipe(df, "genres", "genre")
    /\ pc' = "exploded"
    /\ UNCHANGED <<df, columns, current_year, env, outs, written>>

ExplodeRaise ==
    /\ pc = "ready"
    /\ "genres" \notin columns
    /\ pc' = "raised"
    /\ UNCHANGED <<df, out, columns, current_year, env, outs, written>>

NextExplode == Explode \/ ExplodeRaise

SpecExplode == InitExplode /\ [][NextExplode]_vars

\* C1: every exploded row has a target value that is non-null, trimmed and
\* non-empty
C1_NoEmptyEntry ==
    pc = "exploded" =>
        \A i \in 1..Len(out) :
            /\ out[i].genre # NA
            /\ out[i].genre = RStrip(LStrip(out[i].genre))
            /\ out[i].genre # <<>>

\* the trimmed, non-empty tokens of one source value
RECURSIVE SumSeq(_)
SumSeq(s) == IF s = <<>> THEN 0 ELSE Head(s) + SumSeq(Tail(s))

NonEmptyTokens(s) ==
    Cardinality({k \in 1..Len(Split(s)) : RStrip(LStrip(Split(s)[k])) # <<>>})

\* C6: the output is, for each input row with a non-null source in original
\* order, one row per substring in split order with the other columns
\* replicated, and it has as many rows as there are non-empty tokens
C6_OrderAndConservation ==
    pc = "exploded" =>
        LET src == SelectSeq(df, LAMBDA r : r.genres # NA)
            \* the number of output rows before those of source row i
            before(i) == SumSeq([j \in 1..(i - 1) |-> Len(Split(src[j].genres))])
        IN  /\ Len(out) = SumSeq([j \in 1..Len(src) |-> Len(Split(src[j].genres))])
            /\ \A i \in 1..Len(src) :
                   \A k \in 1..Len(Split(src[i].genres)) :
                       LET o == out[before(i) + k]
                       IN  /\ o.genre = RStrip(LStrip(Split(src[i].genres)[k]))
                           /\ [c \in DOMAIN src[i] |-> o[c]] = src[i]
            /\ Len(out) = SumSeq([j \in 1..Len(src) |-> NonEmptyTokens(src[j].genres)])

(***************************************************************************)
(* prepare_types                                                           *)
(***************************************************************************)
DigitChars == <<"0", "1", "2", "3", "4", "5", "6", "7", "8", "9">>

IsDigit(c) == \E k \in 1..10 : DigitChars[k] = c

DigitVal(c) == (CHOOSE k \in 1..10 : DigitChars[k] = c) - 1

AllDigits(s) == s # <<>> /\ \A i \in 1..Len(s) : IsDigit(s[i])

RECURSIVE ParseNat(_)
ParseNat(s) == IF s = <<>> THEN 0
               ELSE 10 * ParseNat(SubSeq(s, 1, Len(s) - 1)) + DigitVal(s[Len(s)])

\* pd.to_numeric(errors="coerce") on one cell: the number, or NaN for a missing
\* value or a text that is not a number
to_numeric(x) ==
    IF x = NA THEN NaN
    ELSE IF AllDigits(x) THEN Num(ParseNat(x))
    ELSE IF x # <<>> /\ Head(x) = "-" /\ AllDigits(Tail(x)) THEN Num(0 - ParseNat(Tail(x)))
    ELSE NaN

IsLeap(y) == y % 4 = 0 /\ (y % 100 # 0 \/ y % 400 = 0)

DaysInMonth(y, m) ==
    IF m = 2 THEN (IF IsLeap(y) THEN 29 ELSE 28)
    ELSE IF m \in {4, 6, 9, 11} THEN 30 ELSE 31

\* the missing date
NaT == {}

\* the directive %y: 00..68 are 2000..2068, 69..99 are 1969..1999
PivotYear(yy) == IF yy <= 68 THEN 2000 + yy ELSE 1900 + yy

\* pd.to_datetime(format="%m/%d/%y", errors="coerce") on one cell:
\* one or two digits of month, of day, two digits of year; NaT otherwise
to_datetime(x) ==
    IF x = NA THEN NaT
    ELSE LET p == SplitOn(x, "/")
         IN  IF /\ Len(p) = 3
                /\ AllDigits(p[1]) /\ Len(p[1]) <= 2
                /\ AllDigits(p[2]) /\ Len(p[2]) <= 2
                /\ AllDigits(p[3]) /\ Len(p[3]) = 2
             THEN LET m == ParseNat(p[1])
                      d == ParseNat(p[2])
                      y == PivotYear(ParseNat(p[3]))
                  IN  IF m \in 1..12 /\ d >= 1 /\ d <= DaysInMonth(y, m)
                      THEN {<<y, m, d>>} ELSE NaT
             ELSE NaT

\* dt - pd.DateOffset(years=100): same month, the day clipped to the month's end
MinusYears(dt, n) ==
    {<<t[1] - n, t[2], IF t[3] <= DaysInMonth(t[1] - n, t[2])
                       THEN t[3] ELSE DaysInMonth(t[1] - n, t[2])>> : t \in dt}

\* the mask of lines 57-59: a parsed year after the current year loses 100 years
FixFuture(dt, cy) ==
    IF \E t \in dt : t[1] > cy THEN MinusYears(dt, 100) ELSE dt

num_cols == {"popularity", "budget", "revenue", "runtime", "vote_count",
             "vote_average", "budget_adj", "revenue_adj", "release_year"}

\* the columns of the table prepare_types returns
PreparedColumns(cols) ==
    IF {"revenue", "budget"} \subseteq cols \/ {"revenue_adj", "budget_adj"} \subseteq cols
    THEN cols \cup {"profit"} ELSE cols

\* a row-by-row fallback to the adjusted pair
ProfitRowFallback(conv, cols) ==
    IF {"revenue", "budget"} \subseteq cols /\ Minus(conv.revenue, conv.budget) # NaN
    THEN Minus(conv.revenue, conv.budget)
    ELSE IF {"revenue_adj", "budget_adj"} \subseteq cols
    THEN Minus(conv.revenue_adj, conv.budget_adj)
    ELSE NaN

\* the profit column of lines 73-77, from the converted row
Profit(conv, cols) ==
    IF {"revenue", "budget"} \subseteq cols
    THEN Minus(conv.revenue, conv.budget)
    ELSE Minus(conv.revenue_adj, conv.budget_adj)

PrepareRow(r, cols, cy) ==
    LET conv == [c \in DOMAIN r |->
                    IF c = "release_date" THEN FixFuture(to_datetime(r[c]), cy)
                    ELSE IF c \in num_cols THEN to_numeric(r[c])
                    ELSE r[c]]
    IN  IF "profit" \in PreparedColumns(cols)
        THEN [c \in DOMAIN r \cup {"profit"} |->
                 IF c = "profit" THEN Profit(conv, cols) ELSE conv[c]]
        ELSE conv

prepare_types(t, cols, cy) == [i \in 1..Len(t) |-> PrepareRow(t[i], cols, cy)]

(***************************************************************************)
(* Dates: the inputs and the call of prepare_types                         *)
(***************************************************************************)
MaxRowsDate == 1

\* pd.Timestamp.today().year of the run
CurrentYears == {2026, 2027, 2068, 2069, 2070, 2099, 2100}

TwoDigits(n) == <<DigitChars[(n \div 10) + 1], DigitChars[(n % 10) + 1]>>

DateText(m, d, yy) == TwoDigits(m) \o <<"/">> \o TwoDigits(d) \o <<"/">> \o TwoDigits(yy)

DateMonths == {2, 12}
DateDays == {15, 29}

DateTexts ==
    {DateText(m, d, yy) : m \in DateMonths, d \in DateDays, yy \in 0..99}
    \cup {NA, <<"x">>, <<"1", "/", "1", "/", "7", "4">>,
          <<"1", "3", "/", "0", "1", "/", "0", "5">>,
          <<"1", "/", "1", "/", "1", "9", "7", "4">>}

InitDate ==
    /\ pc = "cleaned"
    /\ columns = {"release_date"}
    /\ df \in {WithIndex(t) : t \in SeqsUpTo([release_date : DateTexts], MaxRowsDate)}
    /\ current_year \in CurrentYears
    /\ out = <<>>
    /\ env = [data |-> TRUE, fallback |-> TRUE, parsable |-> TRUE, disk |-> 7]
    /\ outs = <<>>
    /\ written = <<>>

Prepare ==
    /\ pc = "cleaned"
    /\ out' = prepare_types(df, columns, current_year)
    /\ columns' = PreparedColumns(columns)
    /\ pc' = "prepared"
    /\ UNCHANGED <<df, current_year, env, outs, written>>

SpecDate == InitDate /\ [][Prepare]_vars

\* C4: a valid date text MM/DD/YY gets the year 19YY when 2000+YY is after
\* the current year and 20YY otherwise, month and day kept
C4_CenturyCorrection ==
    pc = "prepared" =>
        \A i \in 1..Len(df) : \A m \in DateMonths, d \in DateDays, yy \in 0..99 :
            (df[i].release_date = DateText(m, d, yy) /\ d <= DaysInMonth(2000 + yy, m))
            => out[i].release_date =
                   {<<IF 2000 + yy > current_year THEN 1900 + yy ELSE 2000 + yy, m, d>>}

(***************************************************************************)
(* Profit: the inputs and the call of prepare_types                        *)
(***************************************************************************)
MaxRowsProfit == 1

MoneyCols == {"revenue", "budget", "revenue_adj", "budget_adj"}

\* the raw cells of a money column: missing, not a number, a number
MoneyTexts(c) ==
    {NA, <<"x">>} \cup
    {CASE c = "revenue" -> <<"1", "0", "0">>
       [] c = "budget" -> <<"4", "0">>
       [] c = "revenue_adj" -> <<"8", "0">>
       [] c = "budget_adj" -> <<"2", "0">>}

AllMoneyTexts == UNION {MoneyTexts(c) : c \in MoneyCols}

MoneyRows(cols) == {r \in [cols -> AllMoneyTexts] : \A c \in cols : r[c] \in MoneyTexts(c)}

InitProfit ==
    /\ pc = "cleaned"
    /\ columns \in SUBSET MoneyCols
    /\ df \in {WithIndex(t) : t \in SeqsUpTo(MoneyRows(columns), MaxRowsProfit)}
    /\ current_year \in {2026}
    /\ out = <<>>
    /\ env = [data |-> TRUE, fallback |-> TRUE, parsable |-> TRUE, disk |-> 7]
    /\ outs = <<>>
    /\ written = <<>>

SpecProfit == InitProfit /\ [][Prepare]_vars

\* whether row r has a non-null value in column c
Has(r, c) == IF c \in DOMAIN r THEN r[c] # NaN ELSE FALSE

RawPair(r) == Has(r, "revenue") /\ Has(r, "budget")

AdjPair(r) == Has(r, "revenue_adj") /\ Has(r, "budget_adj")

\* C3 as stated: profit is non-null whenever one of the two pairs is complete
\* in the row, and a row with an incomplete raw pair and a complete adjusted
\* pair gets revenue_adj - budget_adj
C3_ProfitWheneverAPair ==
    pc = "prepared" =>
        \A i \in 1..Len(out) :
            /\ (RawPair(out[i]) \/ AdjPair(out[i])) => Has(out[i], "profit")
            /\ (~RawPair(out[i]) /\ AdjPair(out[i])) =>
                   /\ "profit" \in DOMAIN out[i]
                   /\ out[i].profit = {Val(out[i].revenue_adj) - Val(out[i].budget_adj)}

\* C3 (amended): the pair is selected by the table's columns, not row by row:
\* with both revenue and budget columns profit is revenue - budget, null when
\* either is null; otherwise with both adjusted columns it is
\* revenue_adj - budget_adj, null when either is null; otherwise the table has
\* no profit column
C3_ProfitOfSelectedPair ==
    pc = "prepared" =>
        \A i \in 1..Len(out) :
            LET r == out[i] IN
            IF {"revenue", "budget"} \subseteq DOMAIN df[i]
            THEN /\ "profit" \in DOMAIN r
                 /\ RawPair(r) => r.profit = {Val(r.revenue) - Val(r.budget)}
                 /\ ~RawPair(r) => r.profit = NaN
            ELSE IF {"revenue_adj", "budget_adj"} \subseteq DOMAIN df[i]
            THEN /\ "profit" \in DOMAIN r
                 /\ AdjPair(r) => r.profit = {Val(r.revenue_adj) - Val(r.budget_adj)}
                 /\ ~AdjPair(r) => r.profit = NaN
            ELSE "profit" \notin DOMAIN r

\* a table with all four columns was normalized and a row with an incomplete
\* raw pair and a complete adjusted pair has a null profit
C3_Witness ==
    /\ pc = "prepared"
    /\ \E i \in 1..Len(out) :
           /\ MoneyCols \subseteq DOMAIN out[i]
           /\ ~RawPair(out[i]) /\ AdjPair(out[i])
           /\ out[i].profit = NaN

(***************************************************************************)
(* sort_values(ascending=False)                                            *)
(***************************************************************************)
\* the rows of a table, as a set (index labels make the rows distinct)
RowSet(t) == {t[i] : i \in 1..Len(t)}

\* sort_values(c, ascending=False) on rows without a null in c.  One sort key
\* is sorted by an unstable sort: every order of the rows that is descending
\* in c is a possible result.
RECURSIVE SortedDesc(_, _)
SortedDesc(S, c) ==
    IF S = {} THEN {<<>>}
    ELSE LET top == {r \in S : \A q \in S : Val(q[c]) <= Val(r[c])}
         IN  UNION {{<<r>> \o s : s \in SortedDesc(S \ {r}, c)} : r \in top}

\* descending order of one nullable key, nulls last: a strictly before b
DescBefore(a, b) == a # NaN /\ (b = NaN \/ Val(a) > Val(b))

(***************************************************************************)
(* q2_filter_vote_avg_gt_7_5                                               *)
(***************************************************************************)
\* 7.5, with vote_average held in tenths of a point
VoteThreshold == 75

Q2Keep(r) == Gt(r.vote_average, VoteThreshold)

\* the order of sort_values(["vote_average"], ascending=False) alone
Q2BeforeAverageOnly(a, b) == Val(a.vote_average) > Val(b.vote_average)

\* the order of sort_values(["vote_average", "vote_count"], ascending=False)
Q2Before(a, b) ==
    \/ Val(a.vote_average) > Val(b.vote_average)
    \/ /\ a.vote_average = b.vote_average
       /\ DescBefore(a.vote_count, b.vote_count)

\* a sort on several keys is stable: r goes after every row not after it
RECURSIVE Q2Insert(_, _)
Q2Insert(s, r) ==
    IF s = <<>> THEN <<r>>
    ELSE IF Q2Before(r, Head(s)) THEN <<r>> \o s
    ELSE <<Head(s)>> \o Q2Insert(Tail(s), r)

RECURSIVE Q2Sort(_)
Q2Sort(t) == IF t = <<>> THEN <<>>
             ELSE Q2Insert(Q2Sort(SubSeq(t, 1, Len(t) - 1)), t[Len(t)])

\* the possible results of q2 on a table that has the column vote_average
q2_filter_vote_avg_gt_7_5(t, cols) ==
    LET tmp == dropna(t, "vote_average")
        kept == SelectSeq(tmp, Q2Keep)
    IN  IF "vote_count" \in cols THEN {Q2Sort(kept)}
        ELSE SortedDesc(RowSet(kept), "vote_average")

MaxRowsQ2 == 3

Q2Averages == {NaN, Num(70), Num(75), Num(76), Num(80)}
Q2Counts == {NaN, Num(10), Num(20)}

Q2Rows(cols) ==
    IF cols = {"vote_average", "vote_count"}
    THEN [vote_average : Q2Averages, vote_count : Q2Counts]
    ELSE IF cols = {"vote_average"} THEN [vote_average : Q2Averages]
    ELSE [vote_count : Q2Counts]

InitQ2 ==
    /\ pc = "prepared"
    /\ columns \in {{"vote_average", "vote_count"}, {"vote_average"}, {"vote_count"}}
    /\ df \in {WithIndex(t) : t \in SeqsUpTo(Q2Rows(columns), MaxRowsQ2)}
    /\ current_year = 0
    /\ out = <<>>
    /\ env = [data |-> TRUE, fallback |-> TRUE, parsable |-> TRUE, disk |-> 7]
    /\ outs = <<>>
    /\ written = <<>>

Q2 ==
    /\ pc = "prepared"
    /\ "vote_average" \in columns
    /\ out' \in q2_filter_vote_avg_gt_7_5(df, columns)
    /\ pc' = "q2_done"
    /\ UNCHANGED <<df, columns, current_year, env, outs, written>>

\* dropna(subset=["vote_average"]) raises KeyError without the column
Q2Raise ==
    /\ pc = "prepared"
    /\ "vote_average" \notin columns
    /\ pc' = "raised"
    /\ UNCHANGED <<df, out, columns, current_year, env, outs, written>>

NextQ2 == Q2 \/ Q2Raise

SpecQ2 == InitQ2 /\ [][NextQ2]_vars

\* a is not below b in descending order, a null counting as below every number
NotBelow(a, b) == b = NaN \/ (a # NaN /\ Val(a) >= Val(b))

\* C9: every result row has vote_average > 7.5, every such input row is in the
\* result exactly once, vote_average never increases along the result and,
\* between two consecutive rows of equal vote_average, vote_count never
\* increases (a null vote_count ordering after every number)
C9_Q2FilterAndOrder ==
    pc = "q2_done" =>
        /\ \A i \in 1..Len(out) :
               out[i].vote_average # NaN /\ Val(out[i].vote_average) > 75
        /\ \A j \in 1..Len(df) :
               (df[j].vote_average # NaN /\ Val(df[j].vote_average) > 75)
               => Cardinality({i \in 1..Len(out) : out[i] = df[j]}) = 1
        /\ \A i \in 1..(Len(out) - 1) :
               /\ Val(out[i].vote_average) >= Val(out[i + 1].vote_average)
               /\ (out[i].vote_average = out[i + 1].vote_average
                   /\ "vote_count" \in columns)
                  => NotBelow(out[i].vote_count, out[i + 1].vote_count)

\* q2 returned two rows of equal vote_average that it had to swap by vote_count,
\* after dropping a row of vote_average 7.5
C9_Witness ==
    /\ pc = "q2_done"
    /\ Len(out) >= 2
    /\ out[1].vote_average = out[2].vote_average
    /\ "vote_count" \in columns
    /\ out[1].vote_count = Num(20) /\ out[2].vote_count = Num(10)
    /\ out[1].idx > out[2].idx
    /\ \E j \in 1..Len(df) : df[j].vote_average = Num(75)

(***************************************************************************)
(* q3_highest_lowest_revenue                                               *)
(***************************************************************************)
\* the scan of Series.idxmax / idxmin: position b is replaced only by a
\* position whose value is strictly better, so the first extreme is kept
RECURSIVE ArgMaxLast(_, _, _, _)
ArgMaxLast(t, c, i, b) ==
    IF i > Len(t) THEN b
    ELSE ArgMaxLast(t, c, i + 1, IF Val(t[i][c]) >= Val(t[b][c]) THEN i ELSE b)

RECURSIVE ArgMax(_, _, _, _)
ArgMax(t, c, i, b) ==
    IF i > Len(t) THEN b
    ELSE ArgMax(t, c, i + 1, IF Val(t[i][c]) > Val(t[b][c]) THEN i ELSE b)

RECURSIVE ArgMin(_, _, _, _)
ArgMin(t, c, i, b) ==
    IF i > Len(t) THEN b
    ELSE ArgMin(t, c, i + 1, IF Val(t[i][c]) < Val(t[b][c]) THEN i ELSE b)

\* the index label of the first row with the largest / smallest value of c
idxmax(t, c) == t[ArgMax(t, c, 1, 1)].idx

idxmin(t, c) == t[ArgMin(t, c, 1, 1)].idx

\* tmp.loc[[label], cols]: the rows with that index label
loc(t, label) == SelectSeq(t, LAMBDA r : r.idx = label)

Q3Cols == {"original_title", "revenue", "budget", "release_year", "release_date"}

\* the selected row with its columns cut to cols and the column type inserted
Q3Tagged(r, tag, cols) ==
    [c \in ((DOMAIN r \ {"idx"}) \cap cols) \cup {"type"} |->
        IF c = "type" THEN tag ELSE r[c]]

q3_highest_lowest_revenue(t) ==
    LET tmp == SelectSeq(dropna(t, "revenue"), LAMBDA r : Gt(r.revenue, 0))
    IN  IF tmp = <<>> THEN <<>>
        ELSE LET max_row == loc(tmp, idxmax(tmp, "revenue"))
                 min_row == loc(tmp, idxmin(tmp, "revenue"))
             IN  WithIndex(
                   [i \in 1..Len(max_row) |-> Q3Tagged(max_row[i], "highest_revenue", Q3Cols)]
                   \o
                   [i \in 1..Len(min_row) |-> Q3Tagged(min_row[i], "lowest_revenue", Q3Cols)])

MaxRowsQ3 == 3

Q3Titles == {<<"A">>, <<"B">>}
Q3Revenues == {NaN, Num(0 - 1), Num(0), Num(1), Num(2)}

Q3Rows(cols) ==
    IF "revenue" \in cols THEN [original_title : Q3Titles, revenue : Q3Revenues]
    ELSE [original_title : Q3Titles]

InitQ3 ==
    /\ pc = "prepared"
    /\ columns \in {{"original_title", "revenue"}, {"original_title"}}
    /\ df \in {WithIndex(t) : t \in SeqsUpTo(Q3Rows(columns), MaxRowsQ3)}
    /\ current_year = 0
    /\ out = <<>>
    /\ env = [data |-> TRUE, fallback |-> TRUE, parsable |-> TRUE, disk |-> 7]
    /\ outs = <<>>
    /\ written = <<>>

Q3 ==
    /\ pc = "prepared"
    /\ "revenue" \in columns
    /\ out' = q3_highest_lowest_revenue(df)
    /\ pc' = "q3_done"
    /\ UNCHANGED <<df, columns, current_year, env, outs, written>>

\* dropna(subset=["revenue"]) raises KeyError without the column
Q3Raise ==
    /\ pc = "prepared"
    /\ "revenue" \notin columns
    /\ pc' = "raised"
    /\ UNCHANGED <<df, out, columns, current_year, env, outs, written>>

NextQ3 == Q3 \/ Q3Raise

SpecQ3 == InitQ3 /\ [][NextQ3]_vars

\* the positions of the rows with a non-null revenue > 0
Q3Qualifying == {i \in 1..Len(df) : df[i].revenue # NaN /\ Val(df[i].revenue) > 0}

\* C7: with a row of revenue > 0 the result has two rows, highest_revenue then
\* lowest_revenue, each taken from the earliest row in source order that has
\* the largest (smallest) revenue among the rows with revenue > 0
C7_Q3Extremes ==
    (pc = "q3_done" /\ Q3Qualifying # {}) =>
        LET first_max == CHOOSE i \in Q3Qualifying :
                /\ \A j \in Q3Qualifying : Val(df[j].revenue) <= Val(df[i].revenue)
                /\ \A j \in Q3Qualifying : j < i => df[j].revenue # df[i].revenue
            first_min == CHOOSE i \in Q3Qualifying :
                /\ \A j \in Q3Qualifying : Val(df[j].revenue) >= Val(df[i].revenue)
                /\ \A j \in Q3Qualifying : j < i => df[j].revenue # df[i].revenue
        IN  /\ Len(out) = 2
            /\ out[1].type = "highest_revenue"
            /\ out[2].type = "lowest_revenue"
            /\ out[1].original_title = df[first_max].original_title
            /\ out[1].revenue = df[first_max].revenue
            /\ out[2].original_title = df[first_min].original_title
            /\ out[2].revenue = df[first_min].revenue

\* q3 answered on a table where two rows of different titles share the largest
\* revenue, and a row of smaller positive revenue comes before them
C7_Witness ==
    /\ pc = "q3_done"
    /\ Len(out) = 2
    /\ \E h, i, j \in Q3Qualifying :
           /\ h < i /\ i < j
           /\ df[i].revenue = df[j].revenue
           /\ df[i].original_title # df[j].original_title
           /\ df[i].revenue = out[1].revenue
           /\ df[i].original_title = out[1].original_title
           /\ df[h].revenue = out[2].revenue
           /\ out[1].revenue # out[2].revenue

(***************************************************************************)
(* q5_top10_profit                                                         *)
(***************************************************************************)
\* head(10)
TopN == 10

head(t, n) == SubSeq(t, 1, IF Len(t) < n THEN Len(t) ELSE n)

Q5KeepRevenueOnly(r) == Gt(r.revenue, 0)

\* the mask (revenue > 0) & (budget > 0)
Q5Keep(r) == Gt(r.revenue, 0) /\ Gt(r.budget, 0)

Q5Cols == {"original_title", "release_year", "budget", "revenue", "profit"}

\* the row with profit recomputed
Q5WithProfit(r) ==
    [c \in DOMAIN r \cup {"profit"} |->
        IF c = "profit" THEN Minus(r.revenue, r.budget) ELSE r[c]]

\* .loc[:, cols]: the index label and the columns of cols
Q5Project(r) == [c \in DOMAIN r \cap (Q5Cols \cup {"idx"}) |-> r[c]]

\* the possible results of q5 on a table with the three required columns
q5_top10_profit(t) ==
    LET tmp == dropna(dropna(dropna(t, "original_title"), "revenue"), "budget")
        kept == SelectSeq(tmp, Q5Keep)
        rows == {Q5WithProfit(r) : r \in RowSet(kept)}
    IN  {head([i \in 1..Len(s) |-> Q5Project(s[i])], TopN) :
            s \in SortedDesc(rows, "profit")}

MaxRowsQ5 == 2
MaxPadQ5 == 10

\* rows of every kind the filter tells apart, with profits -2, 2, 2 and 29
Q5Rows ==
    {[original_title |-> NA, revenue |-> Num(8), budget |-> Num(1), runtime |-> Num(90)],
     [original_title |-> <<"A">>, revenue |-> NaN, budget |-> Num(1), runtime |-> Num(90)],
     [original_title |-> <<"A">>, revenue |-> Num(8), budget |-> NaN, runtime |-> Num(90)],
     [original_title |-> <<"A">>, revenue |-> Num(0), budget |-> Num(1), runtime |-> Num(90)],
     [original_title |-> <<"A">>, revenue |-> Num(8), budget |-> Num(0), runtime |-> Num(90)],
     [original_title |-> <<"A">>, revenue |-> Num(1), budget |-> Num(3), runtime |-> Num(90)],
     [original_title |-> <<"A">>, revenue |-> Num(3), budget |-> Num(1), runtime |-> Num(90)],
     [original_title |-> <<"B">>, revenue |-> Num(4), budget |-> Num(2), runtime |-> Num(90)],
     [original_title |-> <<"A">>, revenue |-> Num(30), budget |-> Num(1), runtime |-> Num(90)]}

\* a run of n qualifying rows of profits 1, 2, ..., n in source order
Q5Pad(n) == [j \in 1..n |-> [original_title |-> <<"P">>, revenue |-> Num(j + 1),
                             budget |-> Num(1), runtime |-> Num(90)]]

InitQ5 ==
    /\ pc = "prepared"
    /\ \/ /\ columns = {"original_title", "revenue", "budget", "runtime"}
          /\ \E t \in SeqsUpTo(Q5Rows, MaxRowsQ5) :
             \E n \in 0..MaxPadQ5 :
             \E k \in 0..Len(t) :
                df = WithIndex(SubSeq(t, 1, k) \o Q5Pad(n) \o SubSeq(t, k + 1, Len(t)))
       \/ /\ columns = {"original_title", "revenue", "runtime"}
          /\ df \in {WithIndex(t) : t \in SeqsUpTo(
                        [original_title : {NA, <<"A">>}, revenue : {NaN, Num(8)},
                         runtime : {Num(90)}], MaxRowsQ5)}
    /\ current_year = 0
    /\ out = <<>>
    /\ env = [data |-> TRUE, fallback |-> TRUE, parsable |-> TRUE, disk |-> 7]
    /\ outs = <<>>
    /\ written = <<>>

Q5 ==
    /\ pc = "prepared"
    /\ {"original_title", "revenue", "budget"} \subseteq columns
    /\ out' \in q5_top10_profit(df)
    /\ pc' = "q5_done"
    /\ UNCHANGED <<df, columns, current_year, env, outs, written>>

\* dropna(subset=[...]) raises KeyError when one of the columns is absent
Q5Raise ==
    /\ pc = "prepared"
    /\ ~({"original_title", "revenue", "budget"} \subseteq columns)
    /\ pc' = "raised"
    /\ UNCHANGED <<df, out, columns, current_year, env, outs, written>>

NextQ5 == Q5 \/ Q5Raise

SpecQ5 == InitQ5 /\ [][NextQ5]_vars

\* the positions of the rows with a title, revenue > 0 and budget > 0
Q5Qualifying ==
    {i \in 1..Len(df) : /\ df[i].original_title # NA
                        /\ df[i].revenue # NaN /\ Val(df[i].revenue) > 0
                        /\ df[i].budget # NaN /\ Val(df[i].budget) > 0}

\* C8: the result has min(10, n) rows for n qualifying rows; each is a distinct
\* qualifying row with profit = revenue - budget; profit never increases along
\* the result; no qualifying row left out has more profit than a result row
C8_Q5Top10 ==
    pc = "q5_done" =>
        LET n == Cardinality(Q5Qualifying)
            pos(k) == CHOOSE i \in 1..Len(df) : df[i].idx = out[k].idx
            taken == {pos(k) : k \in 1..Len(out)}
        IN  /\ Len(out) = IF n < 10 THEN n ELSE 10
            /\ \A k \in 1..Len(out) :
                   /\ pos(k) \in Q5Qualifying
                   /\ out[k].revenue = df[pos(k)].revenue
                   /\ out[k].budget = df[pos(k)].budget
                   /\ out[k].original_title = df[pos(k)].original_title
                   /\ out[k].profit = {Val(out[k].revenue) - Val(out[k].budget)}
            /\ Cardinality(taken) = Len(out)
            /\ \A k \in 1..(Len(out) - 1) : Val(out[k].profit) >= Val(out[k + 1].profit)
            /\ \A i \in Q5Qualifying \ taken : \A k \in 1..Len(out) :
                   Val(df[i].revenue) - Val(df[i].budget) <= Val(out[k].profit)

\* q5 cut a table of more than ten qualifying rows to ten, leaving out a row
\* that ties with the last row kept
C8_Witness ==
    /\ pc = "q5_done"
    /\ Cardinality(Q5Qualifying) > 10
    /\ Len(out) = 10
    /\ \E i \in Q5Qualifying :
           /\ \A k \in 1..Len(out) : out[k].idx # df[i].idx
           /\ {Val(df[i].revenue) - Val(df[i].budget)} = out[10].profit

(***************************************************************************)
(* main: the run, statement by statement.  The table is reduced to the set *)
(* of its columns, which decides whether a query raises.                   *)
(***************************************************************************)
\* q1 .. q7
NumQueries == 7

\* the columns a query indexes without checking that they exist
Required(i) ==
    CASE i = 1 -> {"release_date"}
      [] i = 2 -> {"vote_average"}
      [] i = 3 -> {"revenue"}
      [] i = 4 -> {"revenue"}
      [] i = 5 -> {"original_title", "revenue", "budget"}
      [] i = 6 -> {}
      [] i = 7 -> {"genres"}

FileColumns == {"release_date", "vote_average", "revenue", "original_title",
                "budget", "genres"}

\* the for loop over outs starts once o holds the seven results
SaveAsComputed(o) == Len(o) >= 1

SavePhase(o) == Len(o) = NumQueries

\* env: which of DATA_PATH and FALLBACK_PATH exist, whether read_csv can parse
\* the file, and how many calls of to_csv succeed
Init ==
    /\ pc = "start"
    /\ df = <<>>
    /\ out = <<>>
    /\ current_year = 2026
    /\ columns \in SUBSET FileColumns
    /\ env \in [data : BOOLEAN, fallback : BOOLEAN, parsable : BOOLEAN,
                disk : 0..NumQueries]
    /\ outs = <<>>
    /\ written = <<>>

ensure_outdir ==
    /\ pc = "start"
    /\ pc' = "resolve"
    /\ UNCHANGED <<df, out, columns, current_year, env, outs, written>>

resolve_data_path ==
    /\ pc = "resolve"
    /\ pc' = IF env.data \/ env.fallback THEN "load" ELSE "raised_resolve"
    /\ UNCHANGED <<df, out, columns, current_year, env, outs, written>>

load_data ==
    /\ pc = "load"
    /\ pc' = IF env.parsable THEN "clean" ELSE "raised_load"
    /\ UNCHANGED <<df, out, columns, current_year, env, outs, written>>

MainClean ==
    /\ pc = "clean"
    /\ pc' = "prepare"
    /\ UNCHANGED <<df, out, columns, current_year, env, outs, written>>

MainPrepare ==
    /\ pc = "prepare"
    /\ columns' = PreparedColumns(columns)
    /\ pc' = "queries"
    /\ UNCHANGED <<df, out, current_year, env, outs, written>>

\* the next element of the list outs is computed
Query ==
    /\ pc = "queries"
    /\ Len(outs) < NumQueries
    /\ Required(Len(outs) + 1) \subseteq columns
    /\ outs' = Append(outs, Len(outs) + 1)
    /\ pc' = IF SavePhase(outs') THEN "saving" ELSE "queries"
    /\ UNCHANGED <<df, out, columns, current_year, env, written>>

\* the next query raises KeyError and main ends
QueryRaise ==
    /\ pc = "queries"
    /\ Len(outs) < NumQueries
    /\ ~(Required(Len(outs) + 1) \subseteq columns)
    /\ pc' = "raised_query"
    /\ UNCHANGED <<df, out, columns, current_year, env, outs, written>>

\* one turn of the loop of lines 207-208
save_q ==
    /\ pc = "saving"
    /\ Len(written) < Len(outs)
    /\ Len(written) < env.disk
    /\ written' = Append(written, outs[Len(written) + 1])
    /\ pc' = IF Len(written') = Len(outs) THEN "done" ELSE "saving"
    /\ UNCHANGED <<df, out, columns, current_year, env, outs>>

\* to_csv raises and main ends
SaveRaise ==
    /\ pc = "saving"
    /\ Len(written) < Len(outs)
    /\ Len(written) >= env.disk
    /\ pc' = "raised_save"
    /\ UNCHANGED <<df, out, columns, current_year, env, outs, written>>

Next ==
    \/ ensure_outdir
    \/ resolve_data_path
    \/ load_data
    \/ MainClean
    \/ MainPrepare
    \/ Query
    \/ QueryRaise
    \/ save_q
    \/ SaveRaise

Spec == Init /\ [][Next]_vars

\* the run is over
Ended == pc \in {"done", "raised_resolve", "raised_load", "raised_query", "raised_save"}

\* the queries that raise on the table's columns
Failing == {i \in 1..NumQueries : ~(Required(i) \subseteq columns)}

\* C5: when the input is found and read, every write succeeds and exactly one
\* query fails structurally, the other six outputs are written by the end
C5_FailureIsolated ==
    (/\ Ended
     /\ env.data \/ env.fallback
     /\ env.parsable
     /\ env.disk = NumQueries
     /\ Cardinality(Failing) = 1)
    => \A i \in (1..NumQueries) \ Failing : \E k \in 1..Len(written) : written[k] = i

\* C10: nothing is written before all seven results are computed, so a run
\* that ends while locating or loading the input or computing a query has
\* written nothing; outputs are written in the order q1, ..., q7, and a run
\* that completes has written all seven
C10_AllOrNothing ==
    /\ written # <<>> => Len(outs) = NumQueries
    /\ pc \in {"raised_resolve", "raised_load", "raised_query"} => written = <<>>
    /\ \A k \in 1..Len(written) : written[k] = k
    /\ Len(written) <= NumQueries
    /\ pc = "done" => Len(written) = NumQueries

\* the seventh query raised after six results were computed, nothing written
C10_Witness ==
    /\ pc = "raised_query"
    /\ Len(outs) = 6
    /\ written = <<>>

====
